---- MODULE Spec2Model ----
(***************************************************************************)
(* Personal finance dashboard (src/ex_3): the ledger file, the menu loop   *)
(* of PersonalFinanceDashboard.main_driver and the analytics functions     *)
(* (valuation, net worth, monthly cash flow, portfolio, goals).            *)
(*                                                                         *)
(* Numbers.  Amounts are whole currency units.  Python computes in binary  *)
(* floating point; here every quotient is rounded down to a whole unit     *)
(* (\div), and the daily compound factor (1.12)^(1/365) is the fixed-point *)
(* rate RatePPM / PPM applied one day at a time.  A missing amount (NaN)   *)
(* is the empty tuple NaN, a present amount n is the tuple <<n>>.          *)
(*                                                                         *)
(* Text.  A category is a sequence of one-character strings, so that the   *)
(* case-insensitive substring match of str.contains is computed.           *)
(*                                                                         *)
(* Ordered mappings (dict, Series) are sequences of records in key order.  *)
(***************************************************************************)
EXTENDS Integers, Sequences, FiniteSets, TLC

VARIABLES csv, now, pc, out

vars == <<csv, now, pc, out>>

----------------------------------------------------------------------------
(* Bounds of the model.                                                    *)

MaxInitRows == 2
MaxRows == 3
MaxDays == 1
MaxMonths == 2

----------------------------------------------------------------------------
(* Amounts: float('nan') and present values.                               *)

NaN == <<>>

Num(n) == <<n>>

IsNaN(a) == a = NaN

Val(a) == a[1]

----------------------------------------------------------------------------
(* Calendar: datetime / Timestamp / Period('M').                           *)

Date(y, m, d) == [y |-> y, m |-> m, d |-> d]

IsLeap(y) == (y % 4 = 0 /\ y % 100 # 0) \/ y % 400 = 0

DaysInMonth(y, m) ==
    IF m = 2 THEN (IF IsLeap(y) THEN 29 ELSE 28)
    ELSE IF m \in {4, 6, 9, 11} THEN 30 ELSE 31

RECURSIVE DaysBeforeMonth(_, _)
DaysBeforeMonth(y, m) ==
    IF m = 1 THEN 0 ELSE DaysBeforeMonth(y, m - 1) + DaysInMonth(y, m - 1)

\* Days since 0001-01-01 (the proleptic Gregorian ordinal), so that the
\* difference of two ordinals is the whole-day part of a Timedelta.
DayNumber(dt) ==
    LET p == dt.y - 1
    IN  365 * p + (p \div 4) - (p \div 100) + (p \div 400)
        + DaysBeforeMonth(dt.y, dt.m) + dt.d

NextDay(dt) ==
    IF dt.d < DaysInMonth(dt.y, dt.m) THEN Date(dt.y, dt.m, dt.d + 1)
    ELSE IF dt.m < 12 THEN Date(dt.y, dt.m + 1, 1)
    ELSE Date(dt.y + 1, 1, 1)

\* Series.dt.to_period('M'): the month ordinal, ordered as the calendar is.
to_period(dt) == dt.y * 12 + (dt.m - 1)

\* str(Period): "YYYY-MM", kept as the pair of its two numbers.
PeriodStr(p) == <<p \div 12, (p % 12) + 1>>

----------------------------------------------------------------------------
(* Text: str.contains(pat, case=False, na=False).                          *)

UpperAlpha ==
    <<"A", "B", "C", "D", "E", "F", "G", "H", "I", "J", "K", "L", "M",
      "N", "O", "P", "Q", "R", "S", "T", "U", "V", "W", "X", "Y", "Z">>

LowerAlpha ==
    <<"a", "b", "c", "d", "e", "f", "g", "h", "i", "j", "k", "l", "m",
      "n", "o", "p", "q", "r", "s", "t", "u", "v", "w", "x", "y", "z">>

Alphabet ==
    {UpperAlpha[i] : i \in 1..Len(UpperAlpha)}
        \cup {LowerAlpha[i] : i \in 1..Len(LowerAlpha)} \cup {" ", "-"}

\* str.lower() of one character
LowerTable ==
    [c \in Alphabet |->
        IF \E i \in 1..Len(UpperAlpha) : UpperAlpha[i] = c
        THEN LowerAlpha[CHOOSE i \in 1..Len(UpperAlpha) : UpperAlpha[i] = c]
        ELSE c]

Lower(c) == LowerTable[c]

\* A missing category (NA) is the empty sequence: pandas reads an empty
\* field as NA, and na=False makes the match False for it.
NA == <<>>

ContainsLiteral(s, pat) ==
    /\ s # NA
    /\ \E i \in 0..(Len(s) - Len(pat)) :
         \A j \in 1..Len(pat) : Lower(s[i + j]) = Lower(pat[j])

\* A pattern is the set of the literal alternatives of the regex A|B.
str_contains(s, pats) == \E pat \in pats : ContainsLiteral(s, pat)

PatMutualFund ==
    <<"M", "u", "t", "u", "a", "l", " ", "F", "u", "n", "d">>

PatInvestment ==
    <<"I", "n", "v", "e", "s", "t", "m", "e", "n", "t">>

----------------------------------------------------------------------------
(* The ledger file and the DataFrame read from it.                         *)
(* A file row is [Date, Category, Type, Amount]: Date is a date, or        *)
(* BadDate for text that is no date; Category is text, empty for an empty  *)
(* field; Amount is <<n>> for the text of the number n and <<>> for text   *)
(* that is no number.                                                      *)

BadDate == Date(0, 0, 0)

Row(dt, cat, ty, am) == [Date |-> dt, Category |-> cat, Type |-> ty, Amount |-> am]

\* pd.to_numeric(errors='coerce')
to_numeric(cell) == IF Len(cell) = 1 THEN Num(cell[1]) ELSE NaN

Columns == {"Date", "Category", "Type", "Amount"}

\* A DataFrame: the dtype of its Date column, its column names, its rows.
Frame(dtype, rows) == [date_dtype |-> dtype, columns |-> Columns, rows |-> rows]

\* pd.DataFrame(columns=[...]): no rows, every column of dtype object.
EmptyFrame == Frame("object", <<>>)

\* PersonalFinanceDashboard.read_transactions: an unparsable date raises in
\* pd.to_datetime and the except branch returns the empty frame.
read_transactions(file) ==
    IF \E i \in 1..Len(file) : file[i].Date = BadDate
    THEN EmptyFrame
    ELSE Frame("datetime64",
               [i \in 1..Len(file) |->
                   Row(file[i].Date, file[i].Category, file[i].Type,
                       to_numeric(file[i].Amount))])

\* DataFrame.empty
df_empty(df) == Len(df.rows) = 0

\* Variant of SumAmount: the sum stops at the first NaN.
RECURSIVE SumAmount_StopAtNaN(_)
SumAmount_StopAtNaN(rows) ==
    IF Len(rows) = 0 THEN 0
    ELSE IF IsNaN(Head(rows).Amount) THEN 0
    ELSE Val(Head(rows).Amount) + SumAmount_StopAtNaN(Tail(rows))

\* Series.sum(): NaN is skipped, the sum of nothing is 0.
RECURSIVE SumAmount(_)
SumAmount(rows) ==
    IF Len(rows) = 0 THEN 0
    ELSE (IF IsNaN(Head(rows).Amount) THEN 0 ELSE Val(Head(rows).Amount))
         + SumAmount(Tail(rows))

\* df[df['Type'] == ty]['Amount'].sum()
TypeSum(rows, ty) == SumAmount(SelectSeq(rows, LAMBDA r : r.Type = ty))

\* df[df['Month'] == month], and the group of groupby('Month') at month
InMonth(rows, month) == SelectSeq(rows, LAMBDA r : to_period(r.Date) = month)

\* sorted(df['Month'].unique()), and the sorted group keys of groupby('Month')
RECURSIVE SortedSeq(_)
SortedSeq(S) ==
    IF S = {} THEN <<>>
    ELSE LET lo == CHOOSE x \in S : \A y \in S : x <= y
         IN  <<lo>> \o SortedSeq(S \ {lo})

Months(rows) == SortedSeq({to_period(rows[i].Date) : i \in 1..Len(rows)})

\* Series.cumsum()
RECURSIVE CumSumFrom(_, _)
CumSumFrom(acc, xs) ==
    IF Len(xs) = 0 THEN <<>>
    ELSE <<acc + Head(xs)>> \o CumSumFrom(acc + Head(xs), Tail(xs))

\* Variant of cumsum: the per-month values, not accumulated.
cumsum_PerMonth(xs) == xs

cumsum(xs) == CumSumFrom(0, xs)

----------------------------------------------------------------------------
(* analytics.py: calculate_net_worth.                                      *)

\* total_income - total_expenses of a group of rows
NetOf(rows) == TypeSum(rows, "Income") - TypeSum(rows, "Expense")

\* Variant of current_cash_of: the expenses added instead of subtracted.
current_cash_of_SignSlip(df, starting_capital) ==
    starting_capital + TypeSum(df.rows, "Income") + TypeSum(df.rows, "Expense")

current_cash_of(df, starting_capital) ==
    starting_capital + TypeSum(df.rows, "Income") - TypeSum(df.rows, "Expense")

\* Variant of current_net_worth_of: the investment value left out.
current_net_worth_of_CashOnly(current_cash, investment_value) ==
    current_cash

current_net_worth_of(current_cash, investment_value) ==
    current_cash + investment_value

\* df.groupby('Month').apply(income - expense).cumsum().to_dict()
monthly_cash_flow(df) ==
    LET ms   == Months(df.rows)
        nets == [i \in 1..Len(ms) |-> NetOf(InMonth(df.rows, ms[i]))]
        cs   == cumsum(nets)
    IN  [i \in 1..Len(ms) |-> [month |-> ms[i], value |-> cs[i]]]

\* Variant of calculate_net_worth: no branch for the empty frame.
calculate_net_worth_NoEmptyCase(df, starting_capital, investment_value) ==
    LET current_cash == current_cash_of(df, starting_capital)
    IN  [starting_capital     |-> starting_capital,
         current_cash         |-> current_cash,
         investment_value     |-> investment_value,
         current_net_worth    |-> current_net_worth_of(current_cash, investment_value),
         monthly_cash_balance |-> monthly_cash_flow(df)]

calculate_net_worth(df, starting_capital, investment_value) ==
    IF df_empty(df)
    THEN [starting_capital     |-> starting_capital,
          current_net_worth    |-> starting_capital,
          current_cash         |-> starting_capital,
          investment_value     |-> 0,
          monthly_cash_balance |-> <<>>]
    ELSE LET current_cash == current_cash_of(df, starting_capital)
         IN  [starting_capital     |-> starting_capital,
              current_cash         |-> current_cash,
              investment_value     |-> investment_value,
              current_net_worth    |-> current_net_worth_of(current_cash, investment_value),
              monthly_cash_balance |-> monthly_cash_flow(df)]

\* The caller's frame after the call: df['Month'] = ... adds a column to it.
calculate_net_worth_df(df) ==
    IF df_empty(df) THEN df
    ELSE [df EXCEPT !.columns = @ \cup {"Month"}]

----------------------------------------------------------------------------
(* finance_dashboard.py: the valuation, the portfolio, the monthly flow.   *)

starting_capital_default == 2000000

PPM == 1000 * 1000

\* daily_return_rate = (1 + 0.12) ** (1/365) - 1 = 0.000310538..., in
\* parts per million.
RatePPM == 311

\* amount * (1 + daily_return_rate) ** days: one day's factor at a time,
\* multiplied for days > 0 and divided for days < 0.
RECURSIVE Grow(_, _)
Grow(v, days) ==
    IF days = 0 THEN v
    ELSE IF days > 0 THEN Grow(v + ((v * RatePPM) \div PPM), days - 1)
    ELSE Grow(v - ((v * RatePPM) \div (PPM + RatePPM)), days + 1)

\* Variant of days_held: both end days counted.
days_held_Inclusive(today, dt) == DayNumber(today) - DayNumber(dt) + 1

\* (datetime.now() - Date).dt.days: a Date is midnight of its day, so the
\* whole days are the difference of the two day numbers, negative for a
\* date after today.
days_held(today, dt) == DayNumber(today) - DayNumber(dt)

\* The row with Amount replaced by its current_value (NaN stays NaN).
current_value_row(today, r) ==
    [r EXCEPT !.Amount =
        IF IsNaN(r.Amount) THEN NaN
        ELSE Num(Grow(Val(r.Amount), days_held(today, r.Date)))]

\* Variant of IsFundExpense: the kind of the row not tested.
IsFundExpense_AnyKind(r) ==
    str_contains(r.Category, {PatMutualFund})

IsFundExpense(r) ==
    str_contains(r.Category, {PatMutualFund}) /\ r.Type = "Expense"

get_investment_value(file, today) ==
    LET df             == read_transactions(file)
        df_investments == SelectSeq(df.rows, IsFundExpense)
    IN  IF Len(df_investments) = 0 THEN 0
        ELSE SumAmount([i \in 1..Len(df_investments) |->
                           current_value_row(today, df_investments[i])])

IsInvestmentCategory(r) ==
    str_contains(r.Category, {PatInvestment, PatMutualFund})

\* Variant of return_percentage_of: the ratio not scaled to a percentage.
return_percentage_of_NoScale(returns, total_invested) ==
    IF total_invested > 0 THEN returns \div total_invested ELSE 0

return_percentage_of(returns, total_invested) ==
    IF total_invested > 0 THEN (returns * 100) \div total_invested ELSE 0

\* Variant of investment_breakdown: only the Expense rows are summed.
investment_breakdown_ExpenseOnly(rows) ==
    [c \in {rows[i].Category : i \in 1..Len(rows)} |->
        TypeSum(SelectSeq(rows, LAMBDA r : r.Category = c), "Expense")]

\* investment_categories.groupby('Category')['Amount'].sum().to_dict()
investment_breakdown(rows) ==
    [c \in {rows[i].Category : i \in 1..Len(rows)} |->
        SumAmount(SelectSeq(rows, LAMBDA r : r.Category = c))]

track_investment_portfolio(file, today) ==
    LET df                    == read_transactions(file)
        investment_categories == SelectSeq(df.rows, IsInvestmentCategory)
        total_invested        == TypeSum(investment_categories, "Expense")
        current_value         == get_investment_value(file, today)
        returns               == current_value - total_invested
    IN  [total_invested       |-> total_invested,
         current_value        |-> current_value,
         returns              |-> returns,
         return_percentage    |-> return_percentage_of(returns, total_invested),
         investment_breakdown |-> investment_breakdown(investment_categories)]

\* Variant of month_entry: net_flow with the operands swapped.
month_entry_SwappedSign(rows, month) ==
    LET month_data == InMonth(rows, month)
        income     == TypeSum(month_data, "Income")
        expenses   == TypeSum(month_data, "Expense")
    IN  [month    |-> PeriodStr(month),
         income   |-> income,
         expenses |-> expenses,
         net_flow |-> expenses - income]

month_entry(rows, month) ==
    LET month_data == InMonth(rows, month)
        income     == TypeSum(month_data, "Income")
        expenses   == TypeSum(month_data, "Expense")
    IN  [month    |-> PeriodStr(month),
         income   |-> income,
         expenses |-> expenses,
         net_flow |-> income - expenses]

calculate_monthly_cashflow(file) ==
    LET df == read_transactions(file)
    IN  IF df_empty(df) THEN <<>>
        ELSE LET ms == Months(df.rows)
             IN  [i \in 1..Len(ms) |-> month_entry(df.rows, ms[i])]

----------------------------------------------------------------------------
(* goals.py: track_financial_goals.                                        *)

financial_goals_default ==
    [target_portfolio_value |-> 500000,
     monthly_savings_goal   |-> 50000,
     annual_income_goal     |-> 1200000]

Min(a, b) == IF a <= b THEN a ELSE b

RECURSIVE SumNetFlow(_)
SumNetFlow(cashflow_data) ==
    IF Len(cashflow_data) = 0 THEN 0
    ELSE Head(cashflow_data).net_flow + SumNetFlow(Tail(cashflow_data))

\* Variant of year_income_of: Income of every year.
year_income_of_AllYears(df, current_year) ==
    SumAmount(SelectSeq(df.rows, LAMBDA r : r.Type = "Income"))

year_income_of(df, current_year) ==
    SumAmount(SelectSeq(df.rows,
        LAMBDA r : r.Date.y = current_year /\ r.Type = "Income"))

\* Variant of avg_monthly_savings_of: the total spread over the twelve
\* months of a year instead of the months of cashflow_data.
avg_monthly_savings_of_PerYear(cashflow_data) ==
    IF Len(cashflow_data) > 0
    THEN SumNetFlow(cashflow_data) \div 12
    ELSE 0

avg_monthly_savings_of(cashflow_data) ==
    IF Len(cashflow_data) > 0
    THEN SumNetFlow(cashflow_data) \div Len(cashflow_data)
    ELSE 0

\* Variant of progress_percentage_of: no min(100, ...).
progress_percentage_of_NoClamp(current, target) ==
    IF target > 0 THEN (current * 100) \div target ELSE 0

\* min(100, (current / target) * 100) if target > 0 else 0
progress_percentage_of(current, target) ==
    IF target > 0 THEN Min(100, (current * 100) \div target) ELSE 0

goal_entry(target, current) ==
    [target              |-> target,
     current             |-> current,
     progress_percentage |-> progress_percentage_of(current, target)]

AttributeError == [raised |-> "AttributeError"]

\* df['Date'].dt raises AttributeError when the Date column is not of a
\* datetime dtype (the frame of read_transactions' except branch).
track_financial_goals(portfolio_data, cashflow_data, df, financial_goals, today) ==
    IF df.date_dtype # "datetime64" THEN AttributeError
    ELSE [portfolio_goal |->
              goal_entry(financial_goals.target_portfolio_value,
                         portfolio_data.current_value),
          monthly_savings_goal |->
              goal_entry(financial_goals.monthly_savings_goal,
                         avg_monthly_savings_of(cashflow_data)),
          annual_income_goal |->
              goal_entry(financial_goals.annual_income_goal,
                         year_income_of(df, today.y))]

----------------------------------------------------------------------------
(* The inputs the model draws from.                                        *)

CatSalary == <<"S", "a", "l", "a", "r", "y">>

CatFund ==
    <<"S", "I", "P", " ", "m", "u", "t", "u", "a", "l", " ", "F", "U", "N", "D">>

CatGold ==
    <<"G", "o", "l", "d", " ", "i", "n", "v", "e", "s", "t", "m", "e", "n", "t">>

Categories == {CatSalary, CatFund, CatGold}

Types == {"Income", "Expense"}

\* datetime.now() when the dashboard is constructed
Today0 == Date(2026, 2, 28)

DatePrevYear == Date(2025, 12, 31)

DateJanuary == Date(2026, 1, 15)

DateFuture == Date(2026, 3, 15)

SmallAmount == 10 * 1000

LargeAmount == 600 * 1000

\* The amounts typed at the prompt of add_new_transaction
AddAmounts == {LargeAmount}

\* Sequences over S of length at most n
SeqsUpTo(S, n) == UNION {[1..k -> S] : k \in 0..n}

\* Ledger files that differ in month, kind and amount (one category).
CashRows ==
    {Row(dt, CatSalary, ty, am) :
        dt \in {DatePrevYear, DateJanuary, DateFuture},
        ty \in Types,
        am \in {<<>>, <<SmallAmount>>}}

\* Frames that differ in month, kind and amount, two present amounts.
NetWorthRows ==
    {Row(dt, CatSalary, ty, am) :
        dt \in {DatePrevYear, DateJanuary, DateFuture},
        ty \in Types,
        am \in {<<>>, <<SmallAmount>>, <<LargeAmount>>}}

\* Ledger files with a Date cell that pd.to_datetime cannot parse.
ErrorRows ==
    {Row(dt, cat, ty, <<SmallAmount>>) :
        dt \in {BadDate, DateJanuary},
        cat \in {CatSalary, CatFund},
        ty \in Types}

\* Ledger files in which amounts are missing, in either category and kind.
MissingRows ==
    {Row(DateJanuary, cat, ty, am) :
        cat \in {CatSalary, CatFund},
        ty \in Types,
        am \in {<<>>, <<SmallAmount>>}}

\* Ledger files that differ in category, kind and age (one amount).
InvestRows ==
    {Row(dt, cat, ty, <<SmallAmount>>) :
        dt \in {DateJanuary, DateFuture},
        cat \in Categories,
        ty \in Types}

----------------------------------------------------------------------------
(* The program: PersonalFinanceDashboard.main_driver.                      *)
(*   csv  the rows of the ledger file (after its header line)              *)
(*   now  the day datetime.now() returns                                   *)
(*   pc   "menu" at the prompt, "done" when the handler of a choice has    *)
(*        returned, "exit" after choice 8, "crashed" after an exception    *)
(*        left the loop                                                    *)
(*   out  what the handler of the last choice computed and printed         *)

\* self.current_date: the construction day, the Date of every new row
current_date == Today0

NoOutput == [op |-> "none"]

InitWith(rows) ==
    /\ csv \in SeqsUpTo(rows, MaxInitRows)
    /\ now = Today0
    /\ pc = "menu"
    /\ out = NoOutput

Init == InitWith(CashRows)

InitInvest == InitWith(InvestRows)

InitReadError == InitWith(ErrorRows)

InitMissing == InitWith(MissingRows)

\* choice '1': display_dashboard
DisplayDashboard ==
    /\ pc = "menu"
    /\ LET df              == read_transactions(csv)
           portfolio_data  == track_investment_portfolio(csv, now)
           cashflow_data   == calculate_monthly_cashflow(csv)
           investment_value == get_investment_value(csv, now)
           net_worth_data  == calculate_net_worth(df, starting_capital_default, investment_value)
           goal_progress   == track_financial_goals(portfolio_data, cashflow_data,
                                  calculate_net_worth_df(df), financial_goals_default, now)
       IN  /\ out' = [op             |-> "display_dashboard",
                      net_worth_data |-> net_worth_data,
                      portfolio_data |-> portfolio_data,
                      cashflow_data  |-> cashflow_data,
                      goal_progress  |-> goal_progress]
           /\ pc' = IF goal_progress = AttributeError THEN "crashed" ELSE "done"
    /\ UNCHANGED <<csv, now>>

\* Variant of AddNewTransaction: the file is opened for writing instead of
\* appending, so the new row replaces the rows that were there.
AddNewTransaction_Overwrite ==
    /\ pc = "menu"
    /\ Len(csv) < MaxRows
    /\ \E category \in Categories, transaction_type \in Types,
          amount \in AddAmounts, written \in BOOLEAN :
         /\ amount > 0
         /\ csv' = IF written
                   THEN <<Row(current_date, category, transaction_type, <<amount>>)>>
                   ELSE csv
         /\ out' = [op |-> "add_new_transaction", written |-> written]
    /\ pc' = "done"
    /\ UNCHANGED now

\* choice '2': add_new_transaction(self.csv_file, self.current_date).  The
\* prompts repeat until the type is Income or Expense and the amount is a
\* number > 0; the append either succeeds or fails with an I/O error that
\* is printed.
AddNewTransaction ==
    /\ pc = "menu"
    /\ Len(csv) < MaxRows
    /\ \E category \in Categories, transaction_type \in Types,
          amount \in AddAmounts, written \in BOOLEAN :
         /\ amount > 0
         /\ csv' = IF written
                   THEN Append(csv, Row(current_date, category, transaction_type, <<amount>>))
                   ELSE csv
         /\ out' = [op |-> "add_new_transaction", written |-> written]
    /\ pc' = "done"
    /\ UNCHANGED now

\* choice '3'
ViewNetWorth ==
    /\ pc = "menu"
    /\ LET df               == read_transactions(csv)
           investment_value == get_investment_value(csv, now)
       IN  out' = [op |-> "net_worth",
                   net_worth_data |->
                       calculate_net_worth(df, starting_capital_default, investment_value)]
    /\ pc' = "done"
    /\ UNCHANGED <<csv, now>>

\* choice '4'
ViewPortfolio ==
    /\ pc = "menu"
    /\ out' = [op |-> "portfolio",
               portfolio_data |-> track_investment_portfolio(csv, now)]
    /\ pc' = "done"
    /\ UNCHANGED <<csv, now>>

\* choice '5'
ViewCashflow ==
    /\ pc = "menu"
    /\ out' = [op |-> "cashflow",
               cashflow_data |-> calculate_monthly_cashflow(csv)]
    /\ pc' = "done"
    /\ UNCHANGED <<csv, now>>

\* choice '6'
ViewGoals ==
    /\ pc = "menu"
    /\ LET df             == read_transactions(csv)
           portfolio_data == track_investment_portfolio(csv, now)
           cashflow_data  == calculate_monthly_cashflow(csv)
           goal_data      == track_financial_goals(portfolio_data, cashflow_data, df,
                                 financial_goals_default, now)
       IN  /\ out' = [op |-> "goals", goal_data |-> goal_data]
           /\ pc' = IF goal_data = AttributeError THEN "crashed" ELSE "done"
    /\ UNCHANGED <<csv, now>>

\* choice '7': fetch_stock_data plots remote prices; the ledger is not read.
FetchStockData ==
    /\ pc = "menu"
    /\ out' = [op |-> "fetch_stock_data"]
    /\ pc' = "done"
    /\ UNCHANGED <<csv, now>>

\* choice '8'
Exit ==
    /\ pc = "menu"
    /\ out' = [op |-> "exit"]
    /\ pc' = "exit"
    /\ UNCHANGED <<csv, now>>

\* any other input: a message is printed
InvalidChoice ==
    /\ pc = "menu"
    /\ out' = [op |-> "invalid"]
    /\ pc' = "done"
    /\ UNCHANGED <<csv, now>>

\* while True: the menu is printed again and the next choice is awaited
ShowMenu ==
    /\ pc = "done"
    /\ pc' = "menu"
    /\ out' = NoOutput
    /\ UNCHANGED <<csv, now>>

\* The clock: the session runs on into the next day.
MidnightPasses ==
    /\ pc = "menu"
    /\ days_held(now, current_date) < MaxDays
    /\ now' = NextDay(now)
    /\ UNCHANGED <<csv, pc, out>>

Next ==
    \/ DisplayDashboard
    \/ AddNewTransaction
    \/ ViewNetWorth
    \/ ViewPortfolio
    \/ ViewCashflow
    \/ ViewGoals
    \/ FetchStockData
    \/ Exit
    \/ InvalidChoice
    \/ ShowMenu
    \/ MidnightPasses

Spec == Init /\ [][Next]_vars

SpecInvest == InitInvest /\ [][Next]_vars

SpecReadError == InitReadError /\ [][Next]_vars

SpecMissing == InitMissing /\ [][Next]_vars

----------------------------------------------------------------------------
(* The analytics functions called on their own: calculate_net_worth and    *)
(* track_financial_goals take every input as an argument, so a caller may  *)
(* pass any frame, capital, investment value, cash flow and goals.  csv    *)
(* holds the rows the frame is read from, out the arguments and the        *)
(* returned value.                                                         *)

Capitals == {0, starting_capital_default}

InvestmentValues == {0, SmallAmount, LargeAmount}

InitNetWorth ==
    /\ csv \in SeqsUpTo(NetWorthRows, MaxRows)
    /\ now = Today0
    /\ pc = "call"
    /\ out = NoOutput

CallNetWorth ==
    /\ pc = "call"
    /\ \E starting_capital \in Capitals, investment_value \in InvestmentValues :
         LET df == read_transactions(csv)
         IN  out' = [op               |-> "calculate_net_worth",
                     df               |-> df,
                     starting_capital |-> starting_capital,
                     investment_value |-> investment_value,
                     ret              |-> calculate_net_worth(df, starting_capital, investment_value),
                     df_after         |-> calculate_net_worth_df(df)]
    /\ pc' = "returned"
    /\ UNCHANGED <<csv, now>>

SpecNetWorth == InitNetWorth /\ [][CallNetWorth]_vars

\* Rows that differ in year and kind.
GoalRows ==
    {Row(dt, CatSalary, ty, <<SmallAmount>>) :
        dt \in {DatePrevYear, DateJanuary}, ty \in Types}

\* portfolio_data["current_value"] as a caller may pass it
CurrentValues == {0, 250 * 1000, 10 * 1000 * 1000}

NetFlows == {0 - LargeAmount, SmallAmount, LargeAmount}

\* A MonthlyCashflow with the given net flows, one month each.
CashflowOf(flows) ==
    [i \in 1..Len(flows) |->
        [month    |-> <<Today0.y, i>>,
         income   |-> IF flows[i] > 0 THEN flows[i] ELSE 0,
         expenses |-> IF flows[i] > 0 THEN 0 ELSE 0 - flows[i],
         net_flow |-> flows[i]]]

PortfolioOf(current_value) ==
    [total_invested       |-> 0,
     current_value        |-> current_value,
     returns              |-> current_value,
     return_percentage    |-> 0,
     investment_breakdown |-> <<>>]

GoalsOf(p, m, a) ==
    [target_portfolio_value |-> p, monthly_savings_goal |-> m, annual_income_goal |-> a]

GoalConfigs ==
    {financial_goals_default,
     GoalsOf(SmallAmount, SmallAmount, SmallAmount),
     GoalsOf(0, 0, 0),
     GoalsOf(0 - SmallAmount, 0 - SmallAmount, 0 - SmallAmount)}

InitGoals ==
    /\ csv \in SeqsUpTo(GoalRows, MaxInitRows)
    /\ now = Today0
    /\ pc = "call"
    /\ out = NoOutput

CallGoals ==
    /\ pc = "call"
    /\ \E current_value \in CurrentValues, flows \in SeqsUpTo(NetFlows, MaxMonths),
          financial_goals \in GoalConfigs :
         LET df             == read_transactions(csv)
             portfolio_data == PortfolioOf(current_value)
             cashflow_data  == CashflowOf(flows)
         IN  out' = [op              |-> "track_financial_goals",
                     portfolio_data  |-> portfolio_data,
                     cashflow_data   |-> cashflow_data,
                     df              |-> df,
                     financial_goals |-> financial_goals,
                     ret             |-> track_financial_goals(portfolio_data, cashflow_data,
                                             df, financial_goals, now)]
    /\ pc' = "returned"
    /\ UNCHANGED <<csv, now>>

SpecGoals == InitGoals /\ [][CallGoals]_vars

----------------------------------------------------------------------------
(* Properties.  The sums of the claims are taken over index sets, apart    *)
(* from the operators that model the code.                                 *)

RECURSIVE SumOver(_, _)
SumOver(f, S) ==
    IF S = {} THEN 0
    ELSE LET i == CHOOSE j \in S : TRUE
         IN  f[i] + SumOver(f, S \ {i})

\* The amount of a row, a missing amount counting nothing
AmountOf(r) == IF r.Amount = <<>> THEN 0 ELSE r.Amount[1]

\* Income counts +, Expense counts -
Signed(r) ==
    IF r.Type = "Income" THEN AmountOf(r)
    ELSE IF r.Type = "Expense" THEN 0 - AmountOf(r)
    ELSE 0

KindTotal(rows, ty, I) ==
    SumOver([i \in 1..Len(rows) |-> IF rows[i].Type = ty THEN AmountOf(rows[i]) ELSE 0], I)

MonthOf(r) == <<r.Date.y, r.Date.m>>

MonthBefore(a, b) == a[1] < b[1] \/ (a[1] = b[1] /\ a[2] < b[2])

RowsOfMonth(rows, ym) == {i \in 1..Len(rows) : MonthOf(rows[i]) = ym}

RowsUpToMonth(rows, ym) ==
    {i \in 1..Len(rows) : MonthOf(rows[i]) = ym \/ MonthBefore(MonthOf(rows[i]), ym)}

NetWorthReturned == pc = "returned" /\ out.op = "calculate_net_worth"

\* C1: in every snapshot calculate_net_worth returns, for an empty or a
\* non-empty frame and whatever capital and investment value were passed,
\* current_net_worth = current_cash + investment_value of that snapshot.
C1_NetWorthIsCashPlusInvestment ==
    NetWorthReturned =>
        out.ret.current_net_worth = out.ret.current_cash + out.ret.investment_value

C1_Witness ==
    /\ NetWorthReturned
    /\ Len(out.df.rows) > 0
    /\ out.investment_value > 0
    /\ out.ret.investment_value = out.investment_value
    /\ out.ret.current_net_worth > out.ret.current_cash

\* C2: for a non-empty frame, current_cash is the starting capital plus the
\* amounts of all Income rows minus the amounts of all Expense rows,
\* whatever their dates.
C2_CurrentCash ==
    (NetWorthReturned /\ Len(out.df.rows) > 0) =>
        LET rows == out.df.rows
            all  == 1..Len(rows)
        IN  out.ret.current_cash =
                out.starting_capital + KindTotal(rows, "Income", all)
                    - KindTotal(rows, "Expense", all)

\* Income in one month, two Expenses in two other months.
C2_Witness ==
    /\ NetWorthReturned
    /\ Len(out.df.rows) = 3
    /\ out.starting_capital = starting_capital_default
    /\ out.df.rows[1].Type = "Income" /\ out.df.rows[1].Amount = <<LargeAmount>>
    /\ out.df.rows[2].Type = "Expense" /\ out.df.rows[2].Amount = <<SmallAmount>>
    /\ out.df.rows[3].Type = "Expense" /\ out.df.rows[3].Amount = <<SmallAmount>>
    /\ MonthOf(out.df.rows[1]) # MonthOf(out.df.rows[2])
    /\ out.ret.current_cash =
           starting_capital_default + LargeAmount - SmallAmount - SmallAmount

\* C3: for an empty frame the snapshot has current_cash and
\* current_net_worth equal to the starting capital, investment_value 0 and
\* an empty monthly_cash_balance, whatever investment value was passed.
C3_EmptyFrameBaseline ==
    (NetWorthReturned /\ Len(out.df.rows) = 0) =>
        /\ out.ret.current_cash = out.starting_capital
        /\ out.ret.current_net_worth = out.starting_capital
        /\ out.ret.investment_value = 0
        /\ out.ret.monthly_cash_balance = <<>>

C3_Witness ==
    /\ NetWorthReturned
    /\ Len(out.df.rows) = 0
    /\ out.investment_value > 0
    /\ out.starting_capital > 0
    /\ out.ret.current_net_worth = out.starting_capital

\* C4: monthly_cash_balance has exactly one key for each calendar month
\* that has a row, the keys are in calendar order whatever the order of the
\* rows, and the value at a month is the sum of income - expense over all
\* rows of that month and of the months before it.
C4_MonthlyCashBalance ==
    (NetWorthReturned /\ Len(out.df.rows) > 0) =>
        LET rows == out.df.rows
            mcb  == out.ret.monthly_cash_balance
            key(i) == PeriodStr(mcb[i].month)
        IN  /\ {key(i) : i \in 1..Len(mcb)} = {MonthOf(rows[j]) : j \in 1..Len(rows)}
            /\ \A i, j \in 1..Len(mcb) : i < j => MonthBefore(key(i), key(j))
            /\ \A i \in 1..Len(mcb) :
                 mcb[i].value =
                     SumOver([j \in 1..Len(rows) |-> Signed(rows[j])],
                             RowsUpToMonth(rows, key(i)))

\* Rows in the order March, December, January with net flows +Large,
\* +Small, -Small: the series is December, January, March with the
\* running totals Small, 0, Large.
C4_Witness ==
    /\ NetWorthReturned
    /\ Len(out.df.rows) = 3
    /\ out.df.rows[1] = Row(DateFuture, CatSalary, "Income", <<LargeAmount>>)
    /\ out.df.rows[2] = Row(DatePrevYear, CatSalary, "Income", <<SmallAmount>>)
    /\ out.df.rows[3] = Row(DateJanuary, CatSalary, "Expense", <<SmallAmount>>)
    /\ Len(out.ret.monthly_cash_balance) = 3
    /\ out.ret.monthly_cash_balance[1].value = SmallAmount
    /\ out.ret.monthly_cash_balance[2].value = 0
    /\ out.ret.monthly_cash_balance[3].value = LargeAmount

CashflowShown == pc = "done" /\ out.op = "cashflow"

\* C5: calculate_monthly_cashflow has exactly one entry for each calendar
\* month that has a row of the ledger, in calendar order whatever the order
\* of the rows, with income and expenses the sums of that month's Income
\* and Expense amounts and net_flow = income - expenses.
C5_MonthlyCashflow ==
    CashflowShown =>
        LET cf == out.cashflow_data
        IN  /\ {cf[i].month : i \in 1..Len(cf)} = {MonthOf(csv[j]) : j \in 1..Len(csv)}
            /\ \A i, j \in 1..Len(cf) : i < j => MonthBefore(cf[i].month, cf[j].month)
            /\ \A i \in 1..Len(cf) :
                 /\ cf[i].income = KindTotal(csv, "Income", RowsOfMonth(csv, cf[i].month))
                 /\ cf[i].expenses = KindTotal(csv, "Expense", RowsOfMonth(csv, cf[i].month))
                 /\ cf[i].net_flow = cf[i].income - cf[i].expenses

\* Three rows, the first of a later month than the second, a month with
\* expenses only and a month with income.
C5_Witness ==
    /\ CashflowShown
    /\ Len(csv) = 3
    /\ MonthBefore(MonthOf(csv[2]), MonthOf(csv[1]))
    /\ Len(out.cashflow_data) = 3
    /\ \E i \in 1..Len(out.cashflow_data) :
         out.cashflow_data[i].income = 0 /\ out.cashflow_data[i].net_flow < 0
    /\ \E i \in 1..Len(out.cashflow_data) : out.cashflow_data[i].net_flow > 0

PortfolioShown == pc = "done" /\ out.op = "portfolio"

\* The categories of the model that contain "mutual fund" in some case
FundCategories == {CatFund}

\* The rows the valuation is about: Expense rows of a fund category
Qualifying == {i \in 1..Len(csv) : csv[i].Type = "Expense" /\ csv[i].Category \in FundCategories}

DateNotBefore(a, b) ==
    \/ a.y > b.y
    \/ a.y = b.y /\ a.m > b.m
    \/ a.y = b.y /\ a.m = b.m /\ a.d >= b.d

\* C6: a qualifying transaction dated after the as-of date is valued at its
\* amount (days_held clamped to zero): when no qualifying row is dated
\* before today, the investment value is the sum of the qualifying amounts.
C6_FutureDatedValuedAtAmount ==
    (PortfolioShown /\ \A i \in Qualifying : DateNotBefore(csv[i].Date, now)) =>
        out.portfolio_data.current_value =
            SumOver([i \in 1..Len(csv) |-> AmountOf(csv[i])], Qualifying)

\* C7: get_investment_value is the sum, over exactly the Expense rows of a
\* fund category, of the amount grown for the days between the row's date
\* and today; it is 0 when no row qualifies, and rows dated today count
\* their amount.
C7_InvestmentValue ==
    PortfolioShown =>
        LET value == out.portfolio_data.current_value
        IN  /\ value =
                 SumOver([i \in 1..Len(csv) |->
                             Grow(AmountOf(csv[i]), DayNumber(now) - DayNumber(csv[i].Date))],
                         Qualifying)
            /\ Qualifying = {} => value = 0
            /\ (\A i \in Qualifying : csv[i].Date = now) =>
                   value = SumOver([i \in 1..Len(csv) |-> AmountOf(csv[i])], Qualifying)

\* A fund Expense of today next to a fund Income and an Expense of another
\* category: the value is the amount of the first alone.
C7_Witness ==
    /\ PortfolioShown
    /\ Len(csv) = 3
    /\ csv[1].Category = CatFund /\ csv[1].Type = "Income"
    /\ csv[2].Category = CatGold /\ csv[2].Type = "Expense"
    /\ csv[3] = Row(now, CatFund, "Expense", <<LargeAmount>>)
    /\ out.portfolio_data.current_value = LargeAmount

\* C8: returns = current_value - total_invested, and return_percentage is
\* returns / total_invested * 100 (rounded down) when total_invested > 0
\* and 0 when total_invested = 0.
C8_ReturnPercentage ==
    PortfolioShown =>
        LET p == out.portfolio_data
        IN  /\ p.returns = p.current_value - p.total_invested
            /\ p.total_invested > 0 =>
                 /\ p.return_percentage * p.total_invested <= p.returns * 100
                 /\ p.returns * 100 < (p.return_percentage + 1) * p.total_invested
            /\ p.total_invested = 0 => p.return_percentage = 0

\* Matched rows, none of them an Expense: nothing invested, percentage 0.
C8_Witness ==
    /\ PortfolioShown
    /\ Len(csv) > 0
    /\ \A i \in 1..Len(csv) : csv[i].Category = CatFund /\ csv[i].Type = "Income"
    /\ out.portfolio_data.total_invested = 0
    /\ out.portfolio_data.return_percentage = 0

GoalsReturned == pc = "returned" /\ out.op = "track_financial_goals"

\* min(100, current / target * 100) rounded down, 0 for a target <= 0
ProgressOk(e) ==
    /\ e.target > 0 =>
         IF e.current >= e.target THEN e.progress_percentage = 100
         ELSE /\ e.progress_percentage * e.target <= e.current * 100
              /\ e.current * 100 < (e.progress_percentage + 1) * e.target
    /\ e.target <= 0 => e.progress_percentage = 0

\* C9: each goal entry has the configured target, the computed metric
\* unclamped as current, and progress_percentage = min(100, current /
\* target * 100) for a target > 0 and 0 otherwise, so never above 100.
C9_GoalProgress ==
    GoalsReturned =>
        LET r     == out.ret
            rows  == out.df.rows
            flows == [i \in 1..Len(out.cashflow_data) |-> out.cashflow_data[i].net_flow]
            n     == Len(flows)
            total == SumOver(flows, 1..n)
        IN  /\ r.portfolio_goal.target = out.financial_goals.target_portfolio_value
            /\ r.monthly_savings_goal.target = out.financial_goals.monthly_savings_goal
            /\ r.annual_income_goal.target = out.financial_goals.annual_income_goal
            /\ r.portfolio_goal.current = out.portfolio_data.current_value
            /\ IF n = 0 THEN r.monthly_savings_goal.current = 0
               ELSE /\ r.monthly_savings_goal.current * n <= total
                    /\ total < (r.monthly_savings_goal.current + 1) * n
            /\ r.annual_income_goal.current =
                   KindTotal(rows, "Income", {i \in 1..Len(rows) : rows[i].Date.y = now.y})
            /\ \A e \in {r.portfolio_goal, r.monthly_savings_goal, r.annual_income_goal} :
                 ProgressOk(e) /\ e.progress_percentage <= 100

\* current 10,000,000 against the target 500,000: progress 100, current
\* as it was passed.
C9_Witness ==
    /\ GoalsReturned
    /\ out.financial_goals = financial_goals_default
    /\ out.portfolio_data.current_value = 10 * 1000 * 1000
    /\ out.ret.portfolio_goal.current = 10 * 1000 * 1000
    /\ out.ret.portfolio_goal.target = 500 * 1000
    /\ out.ret.portfolio_goal.progress_percentage = 100

\* C10: with positive targets every progress_percentage lies in [0, 100],
\* also when the average monthly net flow is negative.
C10_ProgressInRange ==
    (/\ GoalsReturned
     /\ out.financial_goals.target_portfolio_value > 0
     /\ out.financial_goals.monthly_savings_goal > 0
     /\ out.financial_goals.annual_income_goal > 0) =>
        \A e \in {out.ret.portfolio_goal, out.ret.monthly_savings_goal,
                  out.ret.annual_income_goal} :
            e.progress_percentage >= 0 /\ e.progress_percentage <= 100


\* C11: the current value of monthly_savings_goal is the arithmetic mean of
\* net_flow over the months of the cashflow_data that was passed, divided
\* by the number of those months and by nothing else, and 0 when
\* cashflow_data is empty.
C11_AverageMonthlySavings ==
    GoalsReturned =>
        LET cf    == out.cashflow_data
            n     == Len(cf)
            total == SumOver([i \in 1..n |-> cf[i].net_flow], 1..n)
            avg   == out.ret.monthly_savings_goal.current
        IN  /\ n = 0 => avg = 0
            /\ n > 0 => avg * n <= total /\ total < (avg + 1) * n

\* Two months with net flows Small and Large: the mean is their half sum.
C11_Witness ==
    /\ GoalsReturned
    /\ Len(out.cashflow_data) = 2
    /\ out.cashflow_data[1].net_flow = SmallAmount
    /\ out.cashflow_data[2].net_flow = LargeAmount
    /\ out.ret.monthly_savings_goal.current = (SmallAmount + LargeAmount) \div 2

\* C12: the current value of annual_income_goal is the sum of the amounts
\* of the Income rows of df dated in the calendar year of the evaluation
\* date; Income of other years and every Expense add nothing, and the
\* income figures of cashflow_data are not used.
C12_YearIncome ==
    GoalsReturned =>
        LET rows == out.df.rows
            I    == {i \in 1..Len(rows) :
                        rows[i].Type = "Income" /\ rows[i].Date.y = now.y}
        IN  out.ret.annual_income_goal.current =
                SumOver([i \in 1..Len(rows) |-> AmountOf(rows[i])], I)

\* Income of last year and of this year in df, another income in
\* cashflow_data: only this year's Income of df is counted.
C12_Witness ==
    /\ GoalsReturned
    /\ Len(out.df.rows) = 2
    /\ out.df.rows[1] = Row(DatePrevYear, CatSalary, "Income", <<SmallAmount>>)
    /\ out.df.rows[2] = Row(DateJanuary, CatSalary, "Income", <<SmallAmount>>)
    /\ Len(out.cashflow_data) = 1
    /\ out.cashflow_data[1].income = LargeAmount
    /\ out.ret.annual_income_goal.current = SmallAmount

\* C13: calculate_net_worth leaves the frame it was given as it was: the
\* same rows and the same columns after the call as before it.
C13_FrameUnchanged ==
    NetWorthReturned => out.df_after = out.df


\* The frame the handlers of the menu read from the ledger file
LedgerFrame == read_transactions(csv)

ZeroGoal(e) == e.current = 0 /\ e.progress_percentage = 0

\* C14: when the frame read from the ledger is empty, be it from a file
\* without rows or from the except branch of read_transactions, no handler
\* ends in an exception and each shows its baseline: investment value 0,
\* an empty cash flow mapping, a portfolio of zeros with an empty
\* breakdown, and three goal entries with current 0 and progress 0.
C14_EmptyLedgerBaseline ==
    (df_empty(LedgerFrame) /\ pc \in {"done", "crashed"}) =>
        /\ pc # "crashed"
        /\ out.op = "net_worth" => out.net_worth_data.investment_value = 0
        /\ out.op = "cashflow" => out.cashflow_data = <<>>
        /\ out.op = "portfolio" =>
             /\ out.portfolio_data.total_invested = 0
             /\ out.portfolio_data.current_value = 0
             /\ out.portfolio_data.returns = 0
             /\ out.portfolio_data.return_percentage = 0
             /\ DOMAIN out.portfolio_data.investment_breakdown = {}
        /\ out.op = "goals" =>
             /\ out.goal_data # AttributeError
             /\ DOMAIN out.goal_data =
                    {"portfolio_goal", "monthly_savings_goal", "annual_income_goal"}
             /\ \A k \in DOMAIN out.goal_data : ZeroGoal(out.goal_data[k])


DashboardShown == pc = "done" /\ out.op = "display_dashboard"

\* The rows of the ledger whose amount is present
Present == {i \in 1..Len(csv) : csv[i].Amount # <<>>}

\* The amounts of the rows of I that have one, added up
PresentSum(I) == SumOver([i \in 1..Len(csv) |-> AmountOf(csv[i])], I \cap Present)

OfKind(ty) == {i \in 1..Len(csv) : csv[i].Type = ty}

\* C15: a row whose amount is missing adds nothing to any aggregate of a
\* dashboard refresh: current_cash, the monthly income, expenses and
\* net_flow, the cumulative cash balance, total_invested, the investment
\* value and the year's income are the sums over the rows that have an
\* amount, and no handler fails on such a row.
C15_MissingAmountExcluded ==
    /\ pc # "crashed"
    /\ DashboardShown =>
        LET nw == out.net_worth_data
            cf == out.cashflow_data
            p  == out.portfolio_data
            g  == out.goal_progress
            upto(ym) == RowsUpToMonth(csv, ym)
            funds == {i \in 1..Len(csv) : csv[i].Category = CatFund}
            invs  == {i \in 1..Len(csv) : csv[i].Category \in {CatFund, CatGold}}
        IN  /\ Len(csv) > 0 =>
                 nw.current_cash = starting_capital_default
                     + PresentSum(OfKind("Income")) - PresentSum(OfKind("Expense"))
            /\ \A k \in 1..Len(cf) :
                 /\ cf[k].income =
                        PresentSum(OfKind("Income") \cap RowsOfMonth(csv, cf[k].month))
                 /\ cf[k].expenses =
                        PresentSum(OfKind("Expense") \cap RowsOfMonth(csv, cf[k].month))
                 /\ cf[k].net_flow = cf[k].income - cf[k].expenses
            /\ \A k \in 1..Len(nw.monthly_cash_balance) :
                 LET ym == PeriodStr(nw.monthly_cash_balance[k].month)
                 IN  nw.monthly_cash_balance[k].value =
                         PresentSum(OfKind("Income") \cap upto(ym))
                             - PresentSum(OfKind("Expense") \cap upto(ym))
            /\ p.total_invested = PresentSum(OfKind("Expense") \cap invs)
            /\ p.current_value =
                 SumOver([i \in 1..Len(csv) |->
                             Grow(AmountOf(csv[i]), DayNumber(now) - DayNumber(csv[i].Date))],
                         OfKind("Expense") \cap funds \cap Present)
            /\ g.annual_income_goal.current =
                 PresentSum(OfKind("Income") \cap {i \in 1..Len(csv) : csv[i].Date.y = now.y})

\* A fund Expense without an amount before one with an amount: only the
\* second is invested and spent.
C15_Witness ==
    /\ DashboardShown
    /\ Len(csv) >= 2
    /\ csv[1] = Row(DateJanuary, CatFund, "Expense", <<>>)
    /\ csv[2] = Row(DateJanuary, CatFund, "Expense", <<SmallAmount>>)
    /\ out.portfolio_data.total_invested = SmallAmount
    /\ out.portfolio_data.current_value > SmallAmount


\* The rows whose category holds 'Investment' or 'Mutual Fund' in any case
Matched == {i \in 1..Len(csv) : csv[i].Category \in {CatFund, CatGold}}

\* C16: total_invested is the sum of the Expense rows among the rows whose
\* category matches 'Investment' or 'Mutual Fund'; investment_breakdown has
\* one entry per matched category, the sum of all its rows whatever their
\* kind; so the entries of the breakdown add up to total_invested plus the
\* amounts of the matched Income rows.
C16_BreakdownCountsAllKinds ==
    PortfolioShown =>
        LET p  == out.portfolio_data
            bd == p.investment_breakdown
        IN  /\ p.total_invested = PresentSum(Matched \cap OfKind("Expense"))
            /\ DOMAIN bd = {csv[i].Category : i \in Matched}
            /\ \A c \in DOMAIN bd :
                 bd[c] = PresentSum({i \in Matched : csv[i].Category = c})
            /\ SumOver(bd, DOMAIN bd) =
                 p.total_invested + PresentSum(Matched \cap OfKind("Income"))

\* A fund Income, a fund Expense and a gold Expense: the breakdown holds
\* more than was invested.
C16_Witness ==
    /\ PortfolioShown
    /\ Len(csv) = 3
    /\ csv[1].Category = CatFund /\ csv[1].Type = "Income"
    /\ csv[2].Category = CatFund /\ csv[2].Type = "Expense"
    /\ csv[3].Category = CatGold /\ csv[3].Type = "Expense"
    /\ out.portfolio_data.investment_breakdown[CatFund]
           = AmountOf(csv[1]) + AmountOf(csv[2])
    /\ out.portfolio_data.total_invested = AmountOf(csv[2]) + AmountOf(csv[3])


\* The step of a handler that wrote the new row to the ledger
AddCompleted == out'.op = "add_new_transaction" /\ out'.written

\* C17: in every step the ledger either stays as it is or, in the step of
\* a completed 'Add New Transaction', gets exactly one row after all the
\* rows it had, of kind Income or Expense and with an amount > 0; the
\* steps of every other choice, and of an add that was not written, leave
\* it unchanged, so no row is ever modified, reordered or deleted.
C17_LedgerAppendOnly ==
    [][/\ (pc = "menu" /\ AddCompleted) =>
            /\ Len(csv') = Len(csv) + 1
            /\ SubSeq(csv', 1, Len(csv)) = csv
            /\ csv'[Len(csv')].Type \in {"Income", "Expense"}
            /\ csv'[Len(csv')].Amount # <<>>
            /\ csv'[Len(csv')].Amount[1] > 0
       /\ ~(pc = "menu" /\ AddCompleted) => csv' = csv]_vars

\* A third row was appended to a ledger of two.
C17_Witness ==
    /\ pc = "done"
    /\ out.op = "add_new_transaction"
    /\ out.written
    /\ Len(csv) = 3
    /\ csv[3].Date = current_date
    /\ csv[1].Date # current_date


\* C18: for a non-empty ledger the two monthly views of one refresh agree:
\* monthly_cash_balance and calculate_monthly_cashflow have the same months
\* in the same order, the balance at a month is the sum of net_flow over
\* the cash flow months up to it, and the balance at the last month is
\* current_cash minus the starting capital.
C18_MonthlyViewsAgree ==
    (DashboardShown /\ Len(csv) > 0) =>
        LET nw  == out.net_worth_data
            mcb == nw.monthly_cash_balance
            cf  == out.cashflow_data
        IN  /\ Len(mcb) = Len(cf)
            /\ Len(mcb) > 0
            /\ \A k \in 1..Len(mcb) :
                 /\ PeriodStr(mcb[k].month) = cf[k].month
                 /\ mcb[k].value = SumOver([j \in 1..Len(cf) |-> cf[j].net_flow], 1..k)
            /\ mcb[Len(mcb)].value = nw.current_cash - nw.starting_capital

\* Rows of three months, the latest first: three balances, the last one
\* the change of cash since the start.
C18_Witness ==
    /\ DashboardShown
    /\ Len(csv) = 3
    /\ csv[1] = Row(DateFuture, CatSalary, "Expense", <<SmallAmount>>)
    /\ csv[2].Date = DatePrevYear
    /\ csv[3] = Row(current_date, CatSalary, "Income", <<LargeAmount>>)
    /\ Len(out.cashflow_data) = 3
    /\ out.cashflow_data[3].net_flow = 0 - SmallAmount
    /\ out.net_worth_data.monthly_cash_balance[3].value
           = out.net_worth_data.current_cash - starting_capital_default


\* What 'View Net Worth' computes from a ledger file on the day now
NetWorthOf(file) ==
    calculate_net_worth(read_transactions(file), starting_capital_default,
                        get_investment_value(file, now))

\* The last row of the ledger was just appended, it is an Expense of a
\* 'Mutual Fund' category, and its date is the evaluation date.
FundExpenseRecordedToday ==
    /\ pc = "done"
    /\ out.op = "add_new_transaction"
    /\ out.written
    /\ csv[Len(csv)].Type = "Expense"
    /\ csv[Len(csv)].Category = CatFund
    /\ csv[Len(csv)].Date = now

\* C19: appending an Expense of amount a > 0 in a 'Mutual Fund' category,
\* dated on the evaluation date, to any ledger lowers current_cash by a,
\* raises the investment value by exactly a and leaves current_net_worth
\* as it was.
C19_InvestingIsNetWorthNeutral ==
    FundExpenseRecordedToday =>
        LET a      == csv[Len(csv)].Amount[1]
            before == NetWorthOf(SubSeq(csv, 1, Len(csv) - 1))
            after  == NetWorthOf(csv)
        IN  /\ a > 0
            /\ after.current_cash = before.current_cash - a
            /\ after.investment_value = before.investment_value + a
            /\ after.current_net_worth = before.current_net_worth

\* The fund Expense was appended to a ledger that already held an older
\* fund Expense, whose value has grown.
C19_Witness ==
    /\ FundExpenseRecordedToday
    /\ Len(csv) = 3
    /\ csv[1] = Row(DateJanuary, CatFund, "Expense", <<SmallAmount>>)
    /\ NetWorthOf(csv).investment_value > SmallAmount + LargeAmount
    /\ NetWorthOf(csv).current_cash
           = NetWorthOf(<<csv[1], csv[2]>>).current_cash - LargeAmount


\* C20: for a ledger without a row dated after the evaluation date, the
\* portfolio has current_value >= total_invested, so returns and
\* return_percentage are not negative.
C20_ReturnsNeverNegative ==
    (PortfolioShown /\ \A i \in 1..Len(csv) : DateNotBefore(now, csv[i].Date)) =>
        /\ out.portfolio_data.current_value >= out.portfolio_data.total_invested
        /\ out.portfolio_data.returns >= 0
        /\ out.portfolio_data.return_percentage >= 0

====
